---- MODULE Spec2Model ----
(***************************************************************************)
(* A model of the bitcask storage engine of db_rs: the data files on disk, *)
(* the active and older data files of an Engine, the BTree key directory,  *)
(* and the operations open, put, delete and get of src/db.rs.              *)
(***************************************************************************)
EXTENDS Integers, Sequences, FiniteSets, TLC

VARIABLES
    disk,       \* the data directory: file id -> the records stored in <id>.data
    options,    \* Engine.options: data_file_size, sync_writes
    status,     \* "open": Engine::open returned Ok; "failed": it returned Err
    active,     \* Engine.active_file: [file_id, write_off]
    older,      \* Engine.older_files: file id -> [file_id, write_off]
    index,      \* Engine.index: the BTreeMap, key -> [file_id, offset]
    file_ids,   \* Engine.file_ids: the file ids found at open
    last,       \* the last call of the sequential client and what it returned
    deleted,    \* keys deleted with success on this engine and not put since
    budget,     \* the calls of append_log_record the run may still make
    pc,         \* per thread: the place of the thread in its call
    loc,        \* per thread: the locals of the call in progress
    ret,        \* per thread: the last call that returned (its name) and its result
    ryw,        \* per thread: the last put that returned Ok, until a delete of its key
    locks,      \* the RwLocks of active_file and older_files: writer and readers
    iter,       \* a BTreeIterator: items, curr_index, options, and what it yielded
    icall,      \* the last call of the indexer and what it returned
    latest,     \* key -> the position of its latest put that no delete followed
    header      \* the sizes of a record, the length of its header, and the maximum

vars == <<disk, options, status, active, older, index, file_ids, last, deleted,
          budget, pc, loc, ret, ryw, locks, iter, icall, latest, header>>

engine == <<disk, options, status, active, older, index, file_ids>>

threadVars == <<pc, loc, ret, ryw>>

indexerVars == <<iter, icall, latest>>

----------------------------------------------------------------------------
(* Bounds of the model. *)

MaxAppends == 3         \* calls of append_log_record over a whole run
MaxAppendsIO == 2       \* the same, in the runs where I/O calls fail
MaxAppendsThreads == 3  \* the same, in the runs of several threads
MaxFiles == 4           \* data files in the directory
SmallFileSize == 8      \* a data_file_size that one small record fills
LargeFileSize == 16     \* a data_file_size that two small records fill

INITIAL_FILE_ID == 0

Keys == {<<>>, <<1>>, <<2>>}
Values == {<<>>, <<5>>}
NonEmptyKeys == Keys \ {<<>>}
Threads == {1, 2}

NORMAL == "NORMAL"
DELETED == "DELETED"
CORRUPT == "CORRUPT"    \* in the place of a record whose bytes do not decode

None == <<>>
Some(x) == <<x>>

----------------------------------------------------------------------------
(* Results: Result<(), Errors> and Result<Bytes, Errors>. *)

Ok == [ok |-> TRUE, err |-> "", value |-> <<>>]
OkValue(v) == [ok |-> TRUE, err |-> "", value |-> v]
Err(e) == [ok |-> FALSE, err |-> e, value |-> <<>>]

----------------------------------------------------------------------------
(* The record codec and the data file. *)

RECURSIVE LenDelim(_)
LenDelim(n) == IF n < 128 THEN 1 ELSE 1 + LenDelim(n \div 128)

\* A number too large for the integers of the model is the sequence of its
\* bits, the lowest first.
Ones(n) == [i \in 1..n |-> 1]
PowerOfTwo(n) == [i \in 1..(n + 1) |-> IF i = n + 1 THEN 1 ELSE 0]

\* std::u32::MAX
U32Max == Ones(32)

\* The widths of usize on which the product u32::MAX as usize * 2 compiles.
UsizeWidths == {64}

\* The number of bits of x up to its highest 1.
BitLen(x) == IF \A i \in 1..Len(x) : x[i] = 0 THEN 0
             ELSE CHOOSE i \in 1..Len(x) : x[i] = 1 /\ \A j \in (i + 1)..Len(x) : x[j] = 0

\* x * 2 in a usize of width bits, wrapping.
TimesTwo(x, width) ==
    LET shifted == <<0>> \o x
    IN  SubSeq(shifted, 1, IF Len(shifted) < width THEN Len(shifted) ELSE width)

\* prost::length_delimiter_len(x):
\* ((((x | 1).leading_zeros() ^ 63) * 9 + 73) / 64) on 64 bits.
LengthDelimiterLen(x) ==
    LET bits == IF BitLen(x) = 0 THEN 1 ELSE BitLen(x)
    IN  ((bits - 1) * 9 + 73) \div 64

\* max_log_record_header_size()
MaxLogRecordHeaderSize(usize_bits) ==
    1 + LengthDelimiterLen(TimesTwo(U32Max, usize_bits))

\* The length of the header of a record: the type byte and the two length fields.
HeaderLen(key_size, value_size) ==
    1 + LengthDelimiterLen(key_size) + LengthDelimiterLen(value_size)

\* The encoded length of a record: type byte, the two length fields, key,
\* value, and the 4 bytes of the crc.
EncLen(rec) ==
    1 + LenDelim(Len(rec.key)) + LenDelim(Len(rec.value))
      + Len(rec.key) + Len(rec.value) + 4

RECURSIVE SizeOf(_)
SizeOf(recs) == IF recs = <<>> THEN 0 ELSE EncLen(Head(recs)) + SizeOf(Tail(recs))

\* DataFile::new: opens or creates <file_id>.data; the write offset starts at 0.
DataFileNew(file_id) == [file_id |-> file_id, write_off |-> 0]

\* The directory after DataFile::new(file_id): the file exists.
DiskOpen(d, file_id) ==
    [f \in DOMAIN d \cup {file_id} |-> IF f \in DOMAIN d THEN d[f] ELSE <<>>]

\* DataFile::write through the append-only file handle: the bytes go to the
\* tail of the file.
DiskWrite(d, file_id, rec) == [d EXCEPT ![file_id] = Append(@, rec)]

RECURSIVE ReadFrom(_, _, _, _)
ReadFrom(recs, i, cur, offset) ==
    IF i > Len(recs) THEN [kind |-> "eof", record |-> None, size |-> 0]
    ELSE IF cur = offset /\ recs[i].rec_type = CORRUPT
         THEN [kind |-> "corrupt", record |-> None, size |-> 0]
    ELSE IF cur = offset
         THEN [kind |-> "ok", record |-> Some(recs[i]), size |-> EncLen(recs[i])]
    ELSE IF offset < cur + EncLen(recs[i])
         THEN [kind |-> "corrupt", record |-> None, size |-> 0]
    ELSE ReadFrom(recs, i + 1, cur + EncLen(recs[i]), offset)

\* DataFile::read_log_record: the record that starts at offset; end of file at
\* or past the tail; bytes from the middle of a record do not decode.
ReadLogRecord(d, file_id, offset) == ReadFrom(d[file_id], 1, 0, offset)

ReadErr(kind) == IF kind = "eof" THEN "ReadDataFileEOF" ELSE "FailedToReadFromDataFile"

----------------------------------------------------------------------------
(* The BTree indexer (src/index/btree.rs). *)

\* A put that returns whether the key was mapped before.
BTreePutReplaced(tree, key, pos) ==
    [tree |-> [k \in DOMAIN tree \cup {key} |-> IF k = key THEN pos ELSE tree[k]],
     ok |-> key \in DOMAIN tree]

BTreePut(tree, key, pos) ==
    [tree |-> [k \in DOMAIN tree \cup {key} |-> IF k = key THEN pos ELSE tree[k]],
     ok |-> TRUE]

BTreeGet(tree, key) == IF key \in DOMAIN tree THEN Some(tree[key]) ELSE None

\* A delete that looks the key up and leaves it in the map.
BTreeDeleteKeeps(tree, key) == [tree |-> tree, ok |-> key \in DOMAIN tree]

\* A delete that returns true whether the key was mapped or not.
BTreeDeleteTrue(tree, key) ==
    [tree |-> [k \in DOMAIN tree \ {key} |-> tree[k]], ok |-> TRUE]

BTreeDelete(tree, key) ==
    [tree |-> [k \in DOMAIN tree \ {key} |-> tree[k]],
     ok |-> key \in DOMAIN tree]

EmptyTree == [k \in {} |-> None]

\* The order of Vec<u8>: byte by byte, a proper prefix first.
RECURSIVE Less(_, _)
Less(a, b) ==
    IF b = <<>> THEN FALSE
    ELSE IF a = <<>> THEN TRUE
    ELSE IF Head(a) # Head(b) THEN Head(a) < Head(b)
    ELSE Less(Tail(a), Tail(b))

\* x.cmp(&key), and its reverse() when the iterator is reversed.
Cmp(x, key, reverse) ==
    LET c == IF x = key THEN "Equal" ELSE IF Less(x, key) THEN "Less" ELSE "Greater"
    IN  IF ~reverse THEN c
        ELSE IF c = "Less" THEN "Greater" ELSE IF c = "Greater" THEN "Less" ELSE c

StartsWith(key, prefix) ==
    Len(prefix) <= Len(key) /\ SubSeq(key, 1, Len(prefix)) = prefix

\* read_guard.iter(): the entries of the map, the smallest key first.
RECURSIVE TreeItems(_)
TreeItems(tree) ==
    IF DOMAIN tree = {} THEN <<>>
    ELSE LET k == CHOOSE x \in DOMAIN tree : \A y \in DOMAIN tree : x = y \/ Less(x, y)
         IN  <<<<k, tree[k]>>>> \o TreeItems([y \in DOMAIN tree \ {k} |-> tree[y]])

Reverse(s) == [i \in 1..Len(s) |-> s[Len(s) + 1 - i]]

\* An iterator that keeps the ascending order whatever the options say.
BTreeIteratorAscending(tree, opts) ==
    [items |-> TreeItems(tree), curr_index |-> 0, options |-> opts]

\* BTree::iterator: a copy of the entries, reversed when options.reverse.
BTreeIterator(tree, opts) ==
    [items |-> IF opts.reverse THEN Reverse(TreeItems(tree)) ELSE TreeItems(tree),
     curr_index |-> 0, options |-> opts]

\* slice::binary_search_by on items between left and right: Ok(index) of an
\* equal element, or Err(index) where the key would be inserted; both give
\* the index.
RECURSIVE BinarySearchBy(_, _, _, _, _)
BinarySearchBy(items, key, reverse, left, right) ==
    IF left >= right THEN left
    ELSE LET mid == left + (right - left) \div 2
             c == Cmp(items[mid + 1][1], key, reverse)
         IN  IF c = "Less" THEN BinarySearchBy(items, key, reverse, mid + 1, right)
             ELSE IF c = "Greater" THEN BinarySearchBy(items, key, reverse, left, mid)
             ELSE mid

\* A seek that compares in ascending order whatever the direction.
SeekAscending(it, key) == BinarySearchBy(it.items, key, FALSE, 0, Len(it.items))

\* BTreeIterator::seek: the new curr_index.
Seek(it, key) == BinarySearchBy(it.items, key, it.options.reverse, 0, Len(it.items))

\* BTreeIterator::next from curr_index on: the item yielded, if any, and the
\* new curr_index.
RECURSIVE IteratorNext(_, _)
IteratorNext(it, curr_index) ==
    IF curr_index >= Len(it.items) THEN [item |-> None, curr_index |-> curr_index]
    ELSE LET item == it.items[curr_index + 1]
         IN  IF it.options.prefix = <<>> \/ StartsWith(item[1], it.options.prefix)
             THEN [item |-> Some(item), curr_index |-> curr_index + 1]
             ELSE IteratorNext(it, curr_index + 1)

----------------------------------------------------------------------------
(* Engine::get (src/db.rs). *)

\* The read of get, once the index gave a position: the data file is the
\* active file or one of the older files.
GetRead(log_record_pos) ==
    IF active.file_id # log_record_pos.file_id
       /\ log_record_pos.file_id \notin DOMAIN older
    THEN Err("DataFileNotFound")
    ELSE LET r == ReadLogRecord(disk, log_record_pos.file_id, log_record_pos.offset)
         IN  IF r.kind # "ok" THEN Err(ReadErr(r.kind))
             ELSE IF r.record[1].rec_type = DELETED THEN Err("KeyNotFound")
             ELSE OkValue(r.record[1].value)

Get(key) ==
    IF key = <<>> THEN Err("KeyIsEmpty")
    ELSE LET pos == BTreeGet(index, key)
         IN  IF pos = None THEN Err("KeyNotFound") ELSE GetRead(pos[1])

----------------------------------------------------------------------------
(* Engine::append_log_record (src/db.rs).  fail names the I/O call of the  *)
(* append path that returns an error, "none" when every call succeeds.     *)

FailPoints == {"sync_old", "open_old", "open_new", "write", "sync"}

Rotates(log_record) ==
    active.write_off + EncLen(log_record) > options.data_file_size

\* The I/O call named by fail is made on the append of log_record.
FailReached(log_record, fail) ==
    CASE fail \in {"sync_old", "open_old", "open_new"} -> Rotates(log_record)
      [] fail = "write" -> TRUE
      [] fail = "sync" -> options.sync_writes
      [] OTHER -> FALSE

AppendResult(res, pos, d, a, o) ==
    [res |-> res, pos |-> pos, disk |-> d, active |-> a, older |-> o]

AppendLogRecord(log_record, fail) ==
    LET record_len == EncLen(log_record)
        rotate == Rotates(log_record)
        current_fid == active.file_id
        \* older_files.insert(current_fid, DataFile::new(current_fid))
        older1 == IF rotate
                  THEN [f \in DOMAIN older \cup {current_fid} |->
                          IF f = current_fid THEN DataFileNew(current_fid) ELSE older[f]]
                  ELSE older
        \* *active_file = DataFile::new(current_fid + 1)
        active1 == IF rotate THEN DataFileNew(current_fid + 1) ELSE active
        disk1 == IF rotate
                 THEN DiskOpen(DiskOpen(disk, current_fid), current_fid + 1)
                 ELSE disk
        write_off == active1.write_off
        \* active_file.write(&enc_record)
        disk2 == DiskWrite(disk1, active1.file_id, log_record)
        active2 == [active1 EXCEPT !.write_off = @ + record_len]
    IN  IF rotate /\ fail = "sync_old"
        THEN AppendResult(Err("FailedSyncDataFile"), None, disk, active, older)
        ELSE IF rotate /\ fail = "open_old"
        THEN AppendResult(Err("FailedToOpenDataFile"), None, disk, active, older)
        ELSE IF rotate /\ fail = "open_new"
        THEN AppendResult(Err("FailedToOpenDataFile"), None,
                          DiskOpen(disk, current_fid), active, older1)
        ELSE IF fail = "write"
        THEN AppendResult(Err("FailedWriteToDataFile"), None, disk1, active1, older1)
        ELSE IF options.sync_writes /\ fail = "sync"
        THEN AppendResult(Err("FailedSyncDataFile"), None, disk2, active2, older1)
        ELSE AppendResult(Ok, Some([file_id |-> active2.file_id, offset |-> write_off]),
                          disk2, active2, older1)

----------------------------------------------------------------------------
(* Engine::put and Engine::delete (src/db.rs): the result of the call and  *)
(* the state it leaves.                                                    *)

CallResult(res, d, a, o, i) ==
    [res |-> res, disk |-> d, active |-> a, older |-> o, index |-> i]

NoChange(res) == CallResult(res, disk, active, older, index)

\* put, past the check of the key: append the record, then update the index.
PutRecord(key, value, fail) ==
    LET record == [key |-> key, value |-> value, rec_type |-> NORMAL]
        a == AppendLogRecord(record, fail)
    IN  IF ~a.res.ok THEN CallResult(a.res, a.disk, a.active, a.older, index)
        ELSE LET i == BTreePut(index, key, a.pos[1])
             IN  CallResult(IF i.ok THEN Ok ELSE Err("IndexUpdateFailed"),
                            a.disk, a.active, a.older, i.tree)

\* A put that does not check the key.
PutUnchecked(key, value, fail) == PutRecord(key, value, fail)

Put(key, value, fail) ==
    IF key = <<>> THEN NoChange(Err("KeyIsEmpty")) ELSE PutRecord(key, value, fail)

\* A delete that removes the key from the index before it appends the tombstone.
DeleteRecordIndexFirst(key, fail) ==
    LET record == [key |-> key, value |-> <<>>, rec_type |-> DELETED]
        i == BTreeDelete(index, key)
        a == AppendLogRecord(record, fail)
    IN  CallResult(IF ~a.res.ok THEN a.res
                   ELSE IF i.ok THEN Ok ELSE Err("IndexUpdateFailed"),
                   a.disk, a.active, a.older, i.tree)

\* delete, for a key the index holds: append the tombstone, then remove the key.
DeleteRecord(key, fail) ==
    LET record == [key |-> key, value |-> <<>>, rec_type |-> DELETED]
        a == AppendLogRecord(record, fail)
    IN  IF ~a.res.ok THEN CallResult(a.res, a.disk, a.active, a.older, index)
        ELSE LET i == BTreeDelete(index, key)
             IN  CallResult(IF i.ok THEN Ok ELSE Err("IndexUpdateFailed"),
                            a.disk, a.active, a.older, i.tree)

\* A delete that appends a tombstone whether the index holds the key or not.
DeleteAlways(key, fail) == DeleteRecord(key, fail)

\* delete, past the check of the key: a key the index does not hold needs no record.
DeleteLookup(key, fail) ==
    IF BTreeGet(index, key) = None THEN NoChange(Ok) ELSE DeleteRecord(key, fail)

Delete(key, fail) ==
    IF key = <<>> THEN NoChange(Err("KeyIsEmpty")) ELSE DeleteLookup(key, fail)

----------------------------------------------------------------------------
(* Engine::open and the replay of the data files (src/db.rs).              *)

Min(S) == CHOOSE x \in S : \A y \in S : x <= y
Max(S) == CHOOSE x \in S : \A y \in S : y <= x

\* load_data_files: the ids of the .data files of the directory, sorted.
RECURSIVE SortedIds(_)
SortedIds(S) == IF S = {} THEN <<>> ELSE <<Min(S)>> \o SortedIds(S \ {Min(S)})

\* The number of files open moves from data_files to older_files: the loop
\* "for _ in 0..=data_files.len() - 1" pops once per file.
OlderCount(n) == IF n > 1 THEN n ELSE 0

\* A replay that takes a record that does not decode for the end of the file.
RECURSIVE ReplayFileLenient(_, _, _, _, _, _)
ReplayFileLenient(d, a, o, file_id, offset, tree) ==
    IF file_id # a.file_id /\ file_id \notin DOMAIN o
    THEN [err |-> "panic", tree |-> tree, offset |-> offset]
    ELSE
    LET r == ReadLogRecord(d, file_id, offset)
    IN  IF r.kind # "ok" THEN [err |-> "", tree |-> tree, offset |-> offset]
        ELSE LET log_record == r.record[1]
                 log_record_pos == [file_id |-> file_id, offset |-> offset]
                 i == IF log_record.rec_type = NORMAL
                      THEN BTreePut(tree, log_record.key, log_record_pos)
                      ELSE BTreeDelete(tree, log_record.key)
             IN  IF ~i.ok
                 THEN [err |-> "IndexUpdateFailed", tree |-> i.tree, offset |-> offset]
                 ELSE ReplayFileLenient(d, a, o, file_id, offset + r.size, i.tree)

\* The loop of load_index_from_data_files over one file, from offset on.
RECURSIVE ReplayFile(_, _, _, _, _, _)
ReplayFile(d, a, o, file_id, offset, tree) ==
    IF file_id # a.file_id /\ file_id \notin DOMAIN o
    THEN [err |-> "panic", tree |-> tree, offset |-> offset]
    ELSE
    LET r == ReadLogRecord(d, file_id, offset)
    IN  IF r.kind = "eof" THEN [err |-> "", tree |-> tree, offset |-> offset]
        ELSE IF r.kind # "ok"
        THEN [err |-> ReadErr(r.kind), tree |-> tree, offset |-> offset]
        ELSE LET log_record == r.record[1]
                 log_record_pos == [file_id |-> file_id, offset |-> offset]
                 i == IF log_record.rec_type = NORMAL
                      THEN BTreePut(tree, log_record.key, log_record_pos)
                      ELSE BTreeDelete(tree, log_record.key)
             IN  IF ~i.ok
                 THEN [err |-> "IndexUpdateFailed", tree |-> i.tree, offset |-> offset]
                 ELSE ReplayFile(d, a, o, file_id, offset + r.size, i.tree)

\* load_index_from_data_files: the files of ids in turn, from the i-th on; the
\* offset reached in the last one becomes the write offset of the active file.
RECURSIVE LoadIndex(_, _, _, _, _, _)
LoadIndex(d, a, o, ids, i, tree) ==
    IF i > Len(ids) THEN [err |-> "", tree |-> tree, active |-> a]
    ELSE LET f == ReplayFile(d, a, o, ids[i], 0, tree)
         IN  IF f.err # "" THEN [err |-> f.err, tree |-> f.tree, active |-> a]
             ELSE LoadIndex(d, IF i = Len(ids) THEN [a EXCEPT !.write_off = f.offset] ELSE a,
                            o, ids, i + 1, f.tree)

\* Engine::open on the directory d.
Open(d) ==
    LET ids == SortedIds(DOMAIN d)
        n == OlderCount(Len(ids))
        \* data_files is reversed and popped from its end: the lowest ids first
        older_files == [f \in {ids[j] : j \in 1..n} |-> DataFileNew(f)]
        created == n = Len(ids)
        active_file == IF created THEN DataFileNew(INITIAL_FILE_ID)
                       ELSE DataFileNew(ids[n + 1])
        d1 == IF created THEN DiskOpen(d, INITIAL_FILE_ID) ELSE d
        l == LoadIndex(d1, active_file, older_files, ids, 1, EmptyTree)
    IN  [res |-> IF l.err = "" THEN Ok ELSE Err(l.err),
         disk |-> d1, active |-> l.active, older |-> older_files,
         index |-> l.tree, file_ids |-> ids]

----------------------------------------------------------------------------
(* The sequential client: one call at a time on one engine.                *)

Call(op, key, value, res) == [op |-> op, key |-> key, value |-> value, res |-> res]

Idle == [t \in Threads |-> "idle"]
NoLocals == [t \in Threads |-> [op |-> "", key |-> <<>>, value |-> <<>>, pos |-> None]]
NoCall == [t \in Threads |-> [op |-> "", res |-> Ok]]
NoPut == [t \in Threads |-> None]
NoLocks == [l \in {"active_file", "older_files"} |-> [writer |-> 0, readers |-> {}]]
NoIterator == [it |-> BTreeIterator(EmptyTree, [reverse |-> FALSE, prefix |-> <<>>]),
               built |-> FALSE, keydir |-> {}, since |-> "", sought |-> <<>>,
               yielded |-> <<>>, done |-> FALSE]
NoIndexCall == [op |-> "", key |-> <<>>, pos |-> None, mapped |-> FALSE,
                ok |-> TRUE, found |-> None]
NoHeader == [usize_bits |-> 64, key_size |-> <<>>, value_size |-> <<>>,
             len |-> 0, max |-> 0]

\* The engine opened on an empty directory, with sync_writes among sync.
InitWith(sync, n) ==
    /\ options \in [data_file_size : {SmallFileSize, LargeFileSize},
                    sync_writes : sync]
    /\ LET e == Open([f \in {} |-> <<>>])
       IN  /\ disk = e.disk
           /\ active = e.active
           /\ older = e.older
           /\ index = e.index
           /\ file_ids = e.file_ids
           /\ status = "open"
    /\ last = Call("open", <<>>, <<>>, Ok)
    /\ deleted = {}
    /\ budget = n
    /\ pc = Idle
    /\ loc = NoLocals
    /\ ret = NoCall
    /\ ryw = NoPut
    /\ locks = NoLocks
    /\ iter = NoIterator
    /\ icall = NoIndexCall
    /\ latest = EmptyTree
    /\ header = NoHeader

\* The call reaches append_log_record.
Appends(op, key) == key # <<>> /\ (op = "delete" => key \in DOMAIN index)

\* A put or delete that returned r: the state it leaves.
Apply(op, key, r) ==
    /\ budget' = IF Appends(op, key) THEN budget - 1 ELSE budget
    /\ budget' >= 0
    /\ Cardinality(DOMAIN r.disk) <= MaxFiles
    /\ disk' = r.disk
    /\ active' = r.active
    /\ older' = r.older
    /\ index' = r.index
    /\ UNCHANGED <<options, status, file_ids, threadVars, locks, indexerVars, header>>

PutCall(key, value, fail) ==
    /\ status = "open"
    /\ LET r == Put(key, value, fail)
       IN  /\ Apply("put", key, r)
           /\ last' = Call("put", key, value, r.res)
           /\ deleted' = IF r.res.ok THEN deleted \ {key} ELSE deleted

DeleteCall(key, fail) ==
    /\ status = "open"
    /\ LET r == Delete(key, fail)
       IN  /\ Apply("delete", key, r)
           /\ last' = Call("delete", key, <<>>, r.res)
           /\ deleted' = IF r.res.ok THEN deleted \cup {key} ELSE deleted

DoPut == \E key \in Keys, value \in Values : PutCall(key, value, "none")

DoDelete == \E key \in Keys : DeleteCall(key, "none")

DoGet ==
    /\ status = "open"
    /\ \E key \in Keys : last' = Call("get", key, <<>>, Get(key))
    /\ UNCHANGED <<engine, deleted, budget, threadVars, locks, indexerVars, header>>

\* The engine is dropped and the directory opened again.
Reopen ==
    /\ status = "open"
    /\ LET e == Open(disk)
       IN  /\ disk' = e.disk
           /\ status' = IF e.res.ok THEN "open" ELSE "failed"
           /\ active' = e.active
           /\ older' = e.older
           /\ index' = e.index
           /\ file_ids' = e.file_ids
           /\ last' = Call("open", <<>>, <<>>, e.res)
    /\ deleted' = {}
    /\ UNCHANGED <<options, budget, threadVars, locks, indexerVars, header>>

\* A put or delete on whose append path an I/O call fails.
PutFails ==
    \E key \in NonEmptyKeys, value \in Values, fail \in FailPoints :
        /\ FailReached([key |-> key, value |-> value, rec_type |-> NORMAL], fail)
        /\ PutCall(key, value, fail)

DeleteFails ==
    \E key \in DOMAIN index, fail \in FailPoints :
        /\ FailReached([key |-> key, value |-> <<>>, rec_type |-> DELETED], fail)
        /\ DeleteCall(key, fail)

\* The process stops, a record of the directory no longer decodes (a write
\* torn at the tail of the last file, or bytes damaged anywhere), and the
\* directory is opened again.
DamageReopen ==
    /\ status = "open"
    /\ \E f \in DOMAIN disk :
          \E i \in 1..Len(disk[f]) :
             LET e == Open([disk EXCEPT ![f][i].rec_type = CORRUPT])
             IN  /\ disk' = e.disk
                 /\ status' = IF e.res.ok THEN "open" ELSE "failed"
                 /\ active' = e.active
                 /\ older' = e.older
                 /\ index' = e.index
                 /\ file_ids' = e.file_ids
                 /\ last' = Call("open", <<>>, <<>>, e.res)
    /\ deleted' = {}
    /\ UNCHANGED <<options, budget, threadVars, locks, indexerVars, header>>

Next == DoPut \/ DoDelete \/ DoGet \/ Reopen

Init == InitWith({FALSE}, MaxAppends)

Spec == Init /\ [][Next]_vars

NextDamage == Next \/ DamageReopen

SpecDamage == Init /\ [][NextDamage]_vars

NextIO == Next \/ PutFails \/ DeleteFails

InitIO == InitWith(BOOLEAN, MaxAppendsIO)

SpecIO == InitIO /\ [][NextIO]_vars

----------------------------------------------------------------------------
(* Threads that share one engine.  A step is one critical section of the   *)
(* call: append_log_record holds the write lock of active_file from its    *)
(* first read of the file to its return, each call of the index holds the  *)
(* lock of the tree, and get reads the files under their read locks.       *)

Locals(op, key, value, pos) == [op |-> op, key |-> key, value |-> value, pos |-> pos]

Return(t, op, res) ==
    /\ ret' = [ret EXCEPT ![t] = [op |-> op, res |-> res]]
    /\ pc' = [pc EXCEPT ![t] = "idle"]
    /\ loc' = [loc EXCEPT ![t] = Locals("", <<>>, <<>>, None)]

\* append_log_record(record) by thread t in its call op, which goes on at next.
ThreadAppend(t, op, record, next) ==
    LET a == AppendLogRecord(record, "none")
    IN  /\ budget > 0
        /\ budget' = budget - 1
        /\ Cardinality(DOMAIN a.disk) <= MaxFiles
        /\ disk' = a.disk
        /\ active' = a.active
        /\ older' = a.older
        /\ pc' = [pc EXCEPT ![t] = next]
        /\ loc' = [loc EXCEPT ![t] = Locals(op, record.key, record.value, a.pos)]

\* put is called with the empty key.
PutEmpty(t) ==
    /\ status = "open" /\ pc[t] = "idle"
    /\ Return(t, "put", Err("KeyIsEmpty"))
    /\ UNCHANGED <<engine, last, deleted, budget, ryw, locks, indexerVars, header>>

\* put is called and appends its record.
PutAppend(t) ==
    /\ status = "open" /\ pc[t] = "idle"
    /\ \E key \in NonEmptyKeys, value \in Values :
          ThreadAppend(t, "put", [key |-> key, value |-> value, rec_type |-> NORMAL],
                       "put_index")
    /\ UNCHANGED <<options, status, index, file_ids, last, deleted, ret, ryw, locks, indexerVars, header>>

\* put updates the index with the position of its record and returns.
PutIndex(t) ==
    /\ pc[t] = "put_index"
    /\ LET i == BTreePut(index, loc[t].key, loc[t].pos[1])
       IN  /\ index' = i.tree
           /\ Return(t, "put",
                     IF i.ok THEN Ok ELSE Err("IndexUpdateFailed"))
           /\ ryw' = [ryw EXCEPT ![t] =
                        IF i.ok THEN Some([key |-> loc[t].key, value |-> loc[t].value,
                                           pos |-> loc[t].pos[1]])
                        ELSE @]
    /\ UNCHANGED <<disk, options, status, active, older, file_ids, last, deleted, budget, locks, indexerVars, header>>

\* delete is called: the check of the key and the lookup in the index.
DeleteBegin(t) ==
    /\ status = "open" /\ pc[t] = "idle"
    /\ \E key \in Keys :
          IF key = <<>> THEN Return(t, "delete", Err("KeyIsEmpty"))
          ELSE IF BTreeGet(index, key) = None THEN Return(t, "delete", Ok)
          ELSE /\ pc' = [pc EXCEPT ![t] = "delete_append"]
               /\ loc' = [loc EXCEPT ![t] = Locals("delete", key, <<>>, None)]
               /\ ret' = ret
    /\ UNCHANGED <<engine, last, deleted, budget, ryw, locks, indexerVars, header>>

\* delete appends the tombstone.
DeleteAppend(t) ==
    /\ pc[t] = "delete_append"
    /\ ThreadAppend(t, "delete", [key |-> loc[t].key, value |-> <<>>, rec_type |-> DELETED],
                    "delete_index")
    /\ UNCHANGED <<options, status, index, file_ids, last, deleted, ret, ryw, locks, indexerVars, header>>

\* delete removes the key from the index and returns.
DeleteIndex(t) ==
    /\ pc[t] = "delete_index"
    /\ LET i == BTreeDelete(index, loc[t].key)
       IN  /\ index' = i.tree
           /\ Return(t, "delete",
                     IF i.ok THEN Ok ELSE Err("IndexUpdateFailed"))
    /\ UNCHANGED <<disk, options, status, active, older, file_ids, last, deleted, budget, ryw, locks, indexerVars, header>>

\* get is called: the check of the key and the lookup in the index.
GetBegin(t) ==
    /\ status = "open" /\ pc[t] = "idle"
    /\ \E key \in Keys :
          IF key = <<>> THEN Return(t, "get", Err("KeyIsEmpty"))
          ELSE IF BTreeGet(index, key) = None
          THEN Return(t, "get", Err("KeyNotFound"))
          ELSE /\ pc' = [pc EXCEPT ![t] = "get_read"]
               /\ loc' = [loc EXCEPT ![t] = Locals("get", key, <<>>, BTreeGet(index, key))]
               /\ ret' = ret
    /\ UNCHANGED <<engine, last, deleted, budget, ryw, locks, indexerVars, header>>

\* get reads the record at the position the index gave and returns.
GetFinish(t) ==
    /\ pc[t] = "get_read"
    /\ Return(t, "get", GetRead(loc[t].pos[1]))
    /\ UNCHANGED <<engine, last, deleted, budget, ryw, locks, indexerVars, header>>

NextThreads ==
    \E t \in Threads :
        \/ PutEmpty(t)
        \/ PutAppend(t)
        \/ PutIndex(t)
        \/ DeleteBegin(t)
        \/ DeleteAppend(t)
        \/ DeleteIndex(t)
        \/ GetBegin(t)
        \/ GetFinish(t)

InitThreads == InitWith({FALSE}, MaxAppendsThreads)

SpecThreads == InitThreads /\ [][NextThreads]_vars

----------------------------------------------------------------------------
(* put and get with the locks of active_file and older_files, one step per *)
(* lock taken and per change of the shared state.                          *)

MaxAppendsLocks == 2    \* calls of append_log_record in the runs with locks

WriteFree(name) == locks[name].writer = 0 /\ locks[name].readers = {}
ReadFree(name) == locks[name].writer = 0

\* An append that starts without the write lock of the active file.
AppendAcquireLate(t) == locks

\* let mut active_file = self.active_file.write()
AppendAcquire(t) == [locks EXCEPT !["active_file"].writer = t]

\* The record of the call of thread t: a tombstone when the call is a delete.
ThreadRecord(t) ==
    [key |-> loc[t].key, value |-> loc[t].value,
     rec_type |-> IF loc[t].op = "delete" THEN DELETED ELSE NORMAL]

\* put is called and append_log_record takes the write lock of the active file.
PutLock(t) ==
    /\ status = "open" /\ pc[t] = "idle"
    /\ budget > 0
    /\ budget' = budget - 1
    /\ WriteFree("active_file")
    /\ locks' = AppendAcquire(t)
    /\ \E key \in NonEmptyKeys, value \in Values :
          loc' = [loc EXCEPT ![t] = Locals("put", key, value, None)]
    /\ pc' = [pc EXCEPT ![t] = "append"]
    /\ UNCHANGED <<engine, last, deleted, ret, ryw, indexerVars, header>>

\* The record does not fit: sync the active file and take the write lock of
\* older_files.
RotateLock(t) ==
    /\ pc[t] = "append"
    /\ Rotates(ThreadRecord(t))
    /\ Cardinality(DOMAIN disk) < MaxFiles
    /\ WriteFree("older_files")
    /\ locks' = [locks EXCEPT !["older_files"].writer = t]
    /\ pc' = [pc EXCEPT ![t] = "rotate_insert"]
    /\ UNCHANGED <<engine, last, deleted, budget, loc, ret, ryw, indexerVars, header>>

\* older_files.insert(current_fid, DataFile::new(current_fid))
RotateInsert(t) ==
    /\ pc[t] = "rotate_insert"
    /\ LET current_fid == active.file_id
       IN  /\ disk' = DiskOpen(disk, current_fid)
           /\ older' = [f \in DOMAIN older \cup {current_fid} |->
                          IF f = current_fid THEN DataFileNew(current_fid) ELSE older[f]]
    /\ pc' = [pc EXCEPT ![t] = "rotate_install"]
    /\ UNCHANGED <<options, status, active, index, file_ids, last, deleted, budget,
                   loc, ret, ryw, locks, indexerVars, header>>

\* *active_file = DataFile::new(current_fid + 1); the write lock of
\* older_files is dropped at the end of the block.
RotateInstall(t) ==
    /\ pc[t] = "rotate_install"
    /\ disk' = DiskOpen(disk, active.file_id + 1)
    /\ active' = DataFileNew(active.file_id + 1)
    /\ locks' = [locks EXCEPT !["older_files"].writer = 0]
    /\ pc' = [pc EXCEPT ![t] = "write"]
    /\ UNCHANGED <<options, status, older, index, file_ids, last, deleted, budget,
                   loc, ret, ryw, indexerVars, header>>

\* active_file.write(&enc_record); append_log_record returns the position and
\* drops the write lock of the active file.
AppendWrite(t) ==
    /\ pc[t] = "write" \/ (pc[t] = "append" /\ ~Rotates(ThreadRecord(t)))
    /\ disk' = DiskWrite(disk, active.file_id, ThreadRecord(t))
    /\ active' = [active EXCEPT !.write_off = @ + EncLen(ThreadRecord(t))]
    /\ loc' = [loc EXCEPT ![t].pos =
                 Some([file_id |-> active.file_id, offset |-> active.write_off])]
    /\ locks' = [locks EXCEPT !["active_file"].writer = 0]
    /\ pc' = [pc EXCEPT ![t] = IF loc[t].op = "delete" THEN "delete_index" ELSE "put_index"]
    /\ UNCHANGED <<options, status, older, index, file_ids, last, deleted, budget,
                   ret, ryw, indexerVars, header>>

\* let active_file = self.active_file.read()
GetLockActive(t) ==
    /\ pc[t] = "get_read"
    /\ t \notin locks["active_file"].readers
    /\ ReadFree("active_file")
    /\ locks' = [locks EXCEPT !["active_file"].readers = @ \cup {t}]
    /\ UNCHANGED <<engine, last, deleted, budget, threadVars, indexerVars, header>>

\* let older_files = self.older_files.read()
GetLockOlder(t) ==
    /\ pc[t] = "get_read"
    /\ t \in locks["active_file"].readers
    /\ t \notin locks["older_files"].readers
    /\ ReadFree("older_files")
    /\ locks' = [locks EXCEPT !["older_files"].readers = @ \cup {t}]
    /\ UNCHANGED <<engine, last, deleted, budget, threadVars, indexerVars, header>>

\* get finds the data file, reads the record and returns; its read locks are
\* dropped.
GetRelease(t) ==
    /\ pc[t] = "get_read"
    /\ t \in locks["active_file"].readers
    /\ t \in locks["older_files"].readers
    /\ Return(t, "get", GetRead(loc[t].pos[1]))
    /\ locks' = [l \in DOMAIN locks |-> [locks[l] EXCEPT !.readers = @ \ {t}]]
    /\ UNCHANGED <<engine, last, deleted, budget, ryw, indexerVars, header>>

NextLocks ==
    \E t \in Threads :
        \/ PutLock(t)
        \/ RotateLock(t)
        \/ RotateInsert(t)
        \/ RotateInstall(t)
        \/ AppendWrite(t)
        \/ PutIndex(t)
        \/ GetBegin(t)
        \/ GetLockActive(t)
        \/ GetLockOlder(t)
        \/ GetRelease(t)

InitLocks == InitWith({FALSE}, MaxAppendsLocks)

SpecLocks == InitLocks /\ [][NextLocks]_vars

----------------------------------------------------------------------------
(* put, delete and get with their locks, a call that waits for a lock      *)
(* being a call in progress.                                               *)

MaxAppendsOrder == 2    \* calls of append_log_record in the runs of the lock order

\* A get that takes the lock of older_files before the lock of the active file.
GetLockOrderReversed == <<"older_files", "active_file">>

\* The locks of get, in the order in which it takes them.
GetLockOrder == <<"active_file", "older_files">>

\* Thread t holds the lock name, for writing or for reading.
Holds(t, name) == locks[name].writer = t \/ t \in locks[name].readers

\* put is called with a key that is not empty.
PutStart(t) ==
    /\ status = "open" /\ pc[t] = "idle"
    /\ budget > 0
    /\ budget' = budget - 1
    /\ \E key \in NonEmptyKeys, value \in Values :
          loc' = [loc EXCEPT ![t] = Locals("put", key, value, None)]
    /\ pc' = [pc EXCEPT ![t] = "lock_active"]
    /\ UNCHANGED <<engine, last, deleted, ret, ryw, locks, indexerVars, header>>

\* delete is called: the check of the key and the lookup in the index.
DeleteStart(t) ==
    /\ status = "open" /\ pc[t] = "idle"
    /\ \E key \in Keys :
          IF key = <<>> THEN Return(t, "delete", Err("KeyIsEmpty")) /\ budget' = budget
          ELSE IF BTreeGet(index, key) = None
          THEN Return(t, "delete", Ok) /\ budget' = budget
          ELSE /\ budget > 0
               /\ budget' = budget - 1
               /\ pc' = [pc EXCEPT ![t] = "lock_active"]
               /\ loc' = [loc EXCEPT ![t] = Locals("delete", key, <<>>, None)]
               /\ ret' = ret
    /\ UNCHANGED <<engine, last, deleted, ryw, locks, indexerVars, header>>

\* append_log_record takes the write lock of the active file.
AppendLock(t) ==
    /\ pc[t] = "lock_active"
    /\ WriteFree("active_file")
    /\ locks' = AppendAcquire(t)
    /\ pc' = [pc EXCEPT ![t] = "append"]
    /\ UNCHANGED <<engine, last, deleted, budget, loc, ret, ryw, indexerVars, header>>

\* The lock that the get of thread t takes next, in a sequence of one lock,
\* or the empty sequence when it holds both.
NextGetLock(t) ==
    LET missing == {i \in 1..Len(GetLockOrder) : ~Holds(t, GetLockOrder[i])}
    IN  IF missing = {} THEN <<>> ELSE <<GetLockOrder[Min(missing)]>>

\* get takes its next read lock.
GetLock(t) ==
    /\ pc[t] = "get_read"
    /\ NextGetLock(t) # <<>>
    /\ ReadFree(NextGetLock(t)[1])
    /\ locks' = [locks EXCEPT ![NextGetLock(t)[1]].readers = @ \cup {t}]
    /\ UNCHANGED <<engine, last, deleted, budget, threadVars, indexerVars, header>>

\* A step of thread t.
StepOrder(t) ==
    \/ PutStart(t)
    \/ DeleteStart(t)
    \/ AppendLock(t)
    \/ RotateLock(t)
    \/ RotateInsert(t)
    \/ RotateInstall(t)
    \/ AppendWrite(t)
    \/ PutIndex(t)
    \/ DeleteIndex(t)
    \/ GetBegin(t)
    \/ GetLock(t)
    \/ GetRelease(t)

NextOrder == \E t \in Threads : StepOrder(t)

\* The small data files, so that appends rotate the active file.
InitOrder ==
    /\ InitWith({FALSE}, MaxAppendsOrder)
    /\ options.data_file_size = SmallFileSize

\* Every thread takes its steps, and a thread that waits for a lock takes it
\* when the lock is free again and again: the locks are those of parking_lot,
\* which hand a lock over to a thread that has waited for it.
SpecOrder ==
    InitOrder /\ [][NextOrder]_vars /\ \A t \in Threads : SF_vars(StepOrder(t))

----------------------------------------------------------------------------
(* Threads that put and delete, and the directory they wrote opened again. *)

MaxAppendsReplay == 3   \* calls of append_log_record before the directory is reopened

\* Every call has returned; the engine, opened on an empty directory, is
\* dropped and the directory is opened again.
ReopenWritten ==
    /\ status = "open"
    /\ file_ids = <<>>
    /\ \A t \in Threads : pc[t] = "idle"
    /\ LET e == Open(disk)
       IN  /\ disk' = e.disk
           /\ status' = IF e.res.ok THEN "open" ELSE "failed"
           /\ active' = e.active
           /\ older' = e.older
           /\ index' = e.index
           /\ file_ids' = e.file_ids
           /\ last' = Call("open", <<>>, <<>>, e.res)
    /\ UNCHANGED <<options, deleted, budget, threadVars, locks, indexerVars, header>>

NextReplay ==
    \/ \E t \in Threads :
          \/ PutAppend(t)
          \/ PutIndex(t)
          \/ DeleteBegin(t)
          \/ DeleteAppend(t)
          \/ DeleteIndex(t)
    \/ ReopenWritten

InitReplay == InitWith({FALSE}, MaxAppendsReplay)

SpecReplay == InitReplay /\ [][NextReplay]_vars

----------------------------------------------------------------------------
(* The indexer on its own: the calls of put, get and delete on a BTree.    *)

IndexKeys == {<<>>, <<1>>, <<1, 2>>, <<2>>}
IndexPositions == {[file_id |-> 0, offset |-> 0], [file_id |-> 1, offset |-> 8]}
Prefixes == {<<>>, <<1>>}

IndexCall(op, key, pos, ok, found) ==
    [op |-> op, key |-> key, pos |-> pos, mapped |-> key \in DOMAIN latest,
     ok |-> ok, found |-> found]

IndexPut ==
    /\ \E key \in IndexKeys, pos \in IndexPositions :
          LET r == BTreePut(index, key, pos)
          IN  /\ index' = r.tree
              /\ icall' = IndexCall("put", key, Some(pos), r.ok, None)
              /\ latest' = [k \in DOMAIN latest \cup {key} |->
                              IF k = key THEN pos ELSE latest[k]]
    /\ UNCHANGED <<disk, options, status, active, older, file_ids, last, deleted,
                   budget, threadVars, locks, iter, header>>

IndexGet ==
    /\ \E key \in IndexKeys :
          icall' = IndexCall("get", key, None, TRUE, BTreeGet(index, key))
    /\ UNCHANGED <<engine, last, deleted, budget, threadVars, locks, iter, latest, header>>

IndexDelete ==
    /\ \E key \in IndexKeys :
          LET r == BTreeDelete(index, key)
          IN  /\ index' = r.tree
              /\ icall' = IndexCall("delete", key, None, r.ok, None)
              /\ latest' = [k \in DOMAIN latest \ {key} |-> latest[k]]
    /\ UNCHANGED <<disk, options, status, active, older, file_ids, last, deleted,
                   budget, threadVars, locks, iter, header>>

NextBTree == IndexPut \/ IndexGet \/ IndexDelete

\* BTree::new, in an engine that no call changes.
InitBTree == InitWith({FALSE}, 0) /\ options.data_file_size = LargeFileSize

SpecBTree == InitBTree /\ [][NextBTree]_vars

----------------------------------------------------------------------------
(* An iterator of the indexer, while the Keydir goes on changing.          *)

\* The Keydir is changed by a put or a delete.
KeydirChange ==
    /\ \E key \in IndexKeys :
          \/ \E pos \in IndexPositions : index' = BTreePut(index, key, pos).tree
          \/ index' = BTreeDelete(index, key).tree
    /\ UNCHANGED <<disk, options, status, active, older, file_ids, last, deleted,
                   budget, threadVars, locks, indexerVars, header>>

\* index.iterator(options)
IteratorCall ==
    /\ \E reverse \in BOOLEAN, prefix \in Prefixes :
          iter' = [it |-> BTreeIterator(index, [reverse |-> reverse, prefix |-> prefix]),
                   built |-> TRUE, keydir |-> DOMAIN index, since |-> "new",
                   sought |-> <<>>, yielded |-> <<>>, done |-> FALSE]
    /\ UNCHANGED <<engine, last, deleted, budget, threadVars, locks, icall, latest, header>>

NextCall ==
    /\ iter.built
    /\ LET r == IteratorNext(iter.it, iter.it.curr_index)
       IN  iter' = [iter EXCEPT !.it.curr_index = r.curr_index,
                                !.yielded = IF r.item = None THEN @
                                            ELSE Append(@, r.item[1][1]),
                                !.done = (r.item = None)]
    /\ UNCHANGED <<engine, last, deleted, budget, threadVars, locks, icall, latest, header>>

SeekCall ==
    /\ iter.built
    /\ \E key \in IndexKeys :
          iter' = [iter EXCEPT !.it.curr_index = Seek(iter.it, key),
                               !.since = "seek", !.sought = key,
                               !.yielded = <<>>, !.done = FALSE]
    /\ UNCHANGED <<engine, last, deleted, budget, threadVars, locks, icall, latest, header>>

RewindCall ==
    /\ iter.built
    /\ iter' = [iter EXCEPT !.it.curr_index = 0,
                            !.since = "rewind", !.sought = <<>>,
                            !.yielded = <<>>, !.done = FALSE]
    /\ UNCHANGED <<engine, last, deleted, budget, threadVars, locks, icall, latest, header>>

NextIterator == KeydirChange \/ IteratorCall \/ NextCall \/ SeekCall \/ RewindCall

\* Any Keydir content.
InitIterator ==
    /\ \E keys \in SUBSET IndexKeys : index \in [keys -> IndexPositions]
    /\ options = [data_file_size |-> LargeFileSize, sync_writes |-> FALSE]
    /\ disk = Open([f \in {} |-> <<>>]).disk
    /\ active = DataFileNew(INITIAL_FILE_ID)
    /\ older = [f \in {} |-> DataFileNew(f)]
    /\ file_ids = <<>>
    /\ status = "open"
    /\ last = Call("open", <<>>, <<>>, Ok)
    /\ deleted = {}
    /\ budget = 0
    /\ pc = Idle
    /\ loc = NoLocals
    /\ ret = NoCall
    /\ ryw = NoPut
    /\ locks = NoLocks
    /\ iter = NoIterator
    /\ icall = NoIndexCall
    /\ latest = EmptyTree
    /\ header = NoHeader

SpecIterator == InitIterator /\ [][NextIterator]_vars

----------------------------------------------------------------------------
(* The header of a record: its length for the sizes of a key and a value,  *)
(* and the maximum that max_log_record_header_size gives.                  *)

\* Sizes at the steps of the length encoding: 0, 1, 2^7 - 1, 2^7, ..., u32::MAX.
SizeSamples ==
    {<<>>} \cup {Ones(n) : n \in {7, 14, 21, 28, 32}}
           \cup {PowerOfTwo(n) : n \in {0, 7, 14, 21, 28, 31}}

\* The header of a record with the sizes drawn is encoded.
EncodeHeader ==
    /\ header.len = 0
    /\ header' = [header EXCEPT !.len = HeaderLen(header.key_size, header.value_size)]
    /\ UNCHANGED <<engine, last, deleted, budget, threadVars, locks, indexerVars>>

\* max_log_record_header_size() is called.
MaxHeaderCall ==
    /\ header.max = 0
    /\ header' = [header EXCEPT !.max = MaxLogRecordHeaderSize(header.usize_bits)]
    /\ UNCHANGED <<engine, last, deleted, budget, threadVars, locks, indexerVars>>

NextHeader == EncodeHeader \/ MaxHeaderCall

InitHeader ==
    /\ header \in [usize_bits : UsizeWidths, key_size : SizeSamples,
                   value_size : SizeSamples, len : {0}, max : {0}]
    /\ index = EmptyTree
    /\ options = [data_file_size |-> LargeFileSize, sync_writes |-> FALSE]
    /\ disk = Open([f \in {} |-> <<>>]).disk
    /\ active = DataFileNew(INITIAL_FILE_ID)
    /\ older = [f \in {} |-> DataFileNew(f)]
    /\ file_ids = <<>>
    /\ status = "open"
    /\ last = Call("open", <<>>, <<>>, Ok)
    /\ deleted = {}
    /\ budget = 0
    /\ pc = Idle
    /\ loc = NoLocals
    /\ ret = NoCall
    /\ ryw = NoPut
    /\ locks = NoLocks
    /\ iter = NoIterator
    /\ icall = NoIndexCall
    /\ latest = EmptyTree

SpecHeader == InitHeader /\ [][NextHeader]_vars

----------------------------------------------------------------------------
(* Properties of the sequential engine.                                    *)

\* The records of the directory, as <<file id, place in the file, record>>.
Stored == UNION {{<<f, i, disk[f][i]>> : i \in 1..Len(disk[f])} : f \in DOMAIN disk}

MaxEncLen ==
    Max({EncLen([key |-> k, value |-> v, rec_type |-> NORMAL]) : k \in Keys, v \in Values})

\* The files of older_files other than the active file.
Sealed == DOMAIN older \ {active.file_id}

\* C1: a put that returned Ok is followed by a get of the same key that
\* returns the value put, in every state the engine reaches, reopened or not.
C1_PutThenGet ==
    (status = "open" /\ last.op = "put" /\ last.res.ok)
        => Get(last.key) = OkValue(last.value)

\* C2: closing the engine and opening the directory again gives an engine
\* whose get returns for every key what it returned before the close.
C2_ReopenKeepsGets ==
    [][last'.op = "open"
         => (status' = "open" /\ \A k \in NonEmptyKeys : (Get(k))' = Get(k))]_vars

C5_SealedNeverGrows ==
    [][\A f \in DOMAIN disk :
          disk'[f] # disk[f] => (f \notin DOMAIN older /\ f = Max(DOMAIN disk'))]_vars

\* C6: every sealed file (a file of older_files that is not the active file)
\* is at most data_file_size + the largest encoded record - 1 bytes long, and
\* is longer than data_file_size only when it holds a single record.
C6_RotationBound ==
    status = "open" =>
        \A f \in Sealed :
            /\ SizeOf(disk[f]) <= options.data_file_size + MaxEncLen - 1
            /\ SizeOf(disk[f]) > options.data_file_size => Len(disk[f]) = 1

\* C7: put, delete and get of the empty key return KeyIsEmpty and change
\* nothing of the engine or of the directory.
C7_EmptyKeyNoChange ==
    [][(last'.op \in {"put", "delete", "get"} /\ last'.key = <<>>)
         => (last'.res = Err("KeyIsEmpty") /\ UNCHANGED engine)]_vars

\* A put of the empty key was refused by an engine that holds records.
C7_Witness ==
    /\ last.op = "put" /\ last.key = <<>> /\ last.res = Err("KeyIsEmpty")
    /\ Stored # {} /\ DOMAIN index # {}

\* C8: delete of a non-empty key that the index does not hold returns Ok and
\* changes nothing of the engine or of the directory.
C8_DeleteAbsentNoChange ==
    [][(last'.op = "delete" /\ last'.key # <<>> /\ last'.key \notin DOMAIN index)
         => (last'.res = Ok /\ UNCHANGED engine)]_vars

\* A delete of a key that was never put returned Ok and wrote no tombstone.
C8_Witness ==
    /\ last.op = "delete" /\ last.key # <<>> /\ last.res = Ok
    /\ Stored # {}
    /\ \A s \in Stored : s[3].key # last.key

IOErrors == {"FailedSyncDataFile", "FailedToOpenDataFile", "FailedWriteToDataFile"}

\* C10: a put or delete that fails with an I/O error on the append path
\* leaves the index as it was, and every get returns what it returned before.
C10_FailedAppendInvisible ==
    [][(last'.op \in {"put", "delete"} /\ last'.res.err \in IOErrors)
         => (index' = index /\ \A k \in Keys : (Get(k))' = Get(k))]_vars

\* A put failed at the sync after the write: its record is in the file and
\* the index does not hold the key.
C10_Witness ==
    /\ last.op = "put" /\ last.res = Err("FailedSyncDataFile")
    /\ last.key \notin DOMAIN index
    /\ \E s \in Stored : s[3] = [key |-> last.key, value |-> last.value, rec_type |-> NORMAL]

\* C13: the id of the active file is greater than every id of older_files,
\* and after open on two or more data files the active file is the file of
\* the highest id and older_files holds exactly the others.
C13_ActiveIsHighest ==
    status = "open" =>
        /\ \A f \in DOMAIN older : f < active.file_id
        /\ (last.op = "open" /\ Cardinality(DOMAIN disk) >= 2)
              => /\ active.file_id = Max(DOMAIN disk)
                 /\ DOMAIN older = DOMAIN disk \ {active.file_id}

\* C14: when open returns, the write offset of the active file is the number
\* of bytes stored in the active file.
C14_WriteOffIsTail ==
    (status = "open" /\ last.op = "open")
        => active.write_off = SizeOf(disk[active.file_id])

\* C16: the position the index holds for a key is in the active file or in a
\* file of older_files, and a NORMAL record of that key starts at its offset.
C16_IndexPointsAtRecord ==
    status = "open" =>
        \A k \in DOMAIN index :
            /\ index[k].file_id = active.file_id \/ index[k].file_id \in DOMAIN older
            /\ LET r == ReadLogRecord(disk, index[k].file_id, index[k].offset)
               IN  /\ r.kind = "ok"
                   /\ r.record[1].key = k
                   /\ r.record[1].rec_type = NORMAL

\* The records of the directory that do not decode.
Damaged == {s \in Stored : s[3].rec_type = CORRUPT}

\* The only damaged record is the last record of the file of the highest id.
TornTail ==
    /\ Cardinality(Damaged) = 1
    /\ \A s \in Damaged : s[1] = Max(DOMAIN disk) /\ s[2] = Len(disk[s[1]])

\* The directory without the last record of the file of the highest id.
WithoutTail ==
    [disk EXCEPT ![Max(DOMAIN disk)] = SubSeq(@, 1, Len(@) - 1)]

----------------------------------------------------------------------------
(* Properties of the engine shared by threads.                             *)

\* The offset at which the i-th record of file f starts.
OffsetOf(f, i) == SizeOf(SubSeq(disk[f], 1, i - 1))

\* The record at position p was appended before the record at position q.
Precedes(p, q) ==
    p.file_id < q.file_id \/ (p.file_id = q.file_id /\ p.offset < q.offset)

\* A delete of key has been called and has its tombstone in the log or is
\* about to append it.
DeleteOf(key) ==
    \/ \E s \in Stored : s[3].key = key /\ s[3].rec_type = DELETED
    \/ \E t \in Threads : pc[t] \in {"delete_append", "delete_index"} /\ loc[t].key = key

\* The values of the records of key that are not before position p in the log.
NotBefore(key, p) ==
    {s[3].value : s \in {x \in Stored :
        /\ x[3].key = key /\ x[3].rec_type = NORMAL
        /\ ~Precedes([file_id |-> x[1], offset |-> OffsetOf(x[1], x[2])], p)}}

\* C4: once a put of k has returned Ok, and as long as no delete of k is
\* called, a get of k returns the value put or the value of a record of k
\* that is later in the log.
C4_ReadYourWrite ==
    \A t \in Threads :
        (ryw[t] # None /\ ~DeleteOf(ryw[t][1].key))
            => LET g == Get(ryw[t][1].key)
               IN  g.ok /\ g.value \in NotBefore(ryw[t][1].key, ryw[t][1].pos)

\* C9: no put and no delete returns IndexUpdateFailed.
C9_NoIndexUpdateFailed ==
    \A t \in Threads :
        ret[t].op \in {"put", "delete"} => ret[t].res # Err("IndexUpdateFailed")

----------------------------------------------------------------------------
(* Properties of the indexer and of its iterator.                          *)

\* The keys of S in the order of traversal: ascending, or descending when reverse.
RECURSIVE InOrder(_, _)
InOrder(S, reverse) ==
    IF S = {} THEN <<>>
    ELSE LET k == CHOOSE x \in S :
                     \A y \in S : x = y \/ (IF reverse THEN Less(y, x) ELSE Less(x, y))
         IN  <<k>> \o InOrder(S \ {k}, reverse)

\* The keys an iterator built on the keys S with the options opts has to yield.
Expected(S, opts) == InOrder({k \in S : StartsWith(k, opts.prefix)}, opts.reverse)

IsPrefixOf(s, t) == Len(s) <= Len(t) /\ SubSeq(t, 1, Len(s)) = s

\* C11: the keys a fresh iterator yields are the keys the Keydir held when it
\* was built that start with the prefix, in ascending order, or descending when
\* reverse, each once, whatever is put or deleted after the construction.
C11_IteratorYields ==
    (iter.built /\ iter.since = "new")
        => /\ IsPrefixOf(iter.yielded, Expected(iter.keydir, iter.it.options))
           /\ iter.done => iter.yielded = Expected(iter.keydir, iter.it.options)

\* A reversed iterator with a prefix has yielded its two keys and none after
\* them, and the Keydir has changed since it was built.
C11_Witness ==
    /\ iter.built /\ iter.since = "new" /\ iter.done
    /\ iter.it.options = [reverse |-> TRUE, prefix |-> <<1>>]
    /\ iter.yielded = <<<<1, 2>>, <<1>>>>
    /\ iter.keydir = IndexKeys
    /\ DOMAIN index # iter.keydir

\* The keys at or after the key sought, in the direction of the iterator.
AtOrAfter(S, opts, key) ==
    {k \in S : k = key \/ (IF opts.reverse THEN Less(k, key) ELSE Less(key, k))}

\* C12: after seek(k) the first next() yields the first key in traversal
\* order that is >= k (<= k when reverse) and starts with the prefix, or none
\* when there is no such key; after rewind() the traversal starts again from
\* the first entry.
C12_SeekAndRewind ==
    LET opts == iter.it.options
        rest == Expected(AtOrAfter(iter.keydir, opts, iter.sought), opts)
    IN  /\ (iter.built /\ iter.since = "seek" /\ (iter.done \/ iter.yielded # <<>>))
              => /\ rest = <<>> => iter.yielded = <<>>
                 /\ rest # <<>> => (iter.yielded # <<>> /\ iter.yielded[1] = rest[1])
        /\ (iter.built /\ iter.since = "rewind")
              => /\ IsPrefixOf(iter.yielded, Expected(iter.keydir, opts))
                 /\ iter.done => iter.yielded = Expected(iter.keydir, opts)

\* A reversed iterator sought a key the Keydir did not hold and yielded the
\* next smaller key.
C12_Witness ==
    /\ iter.built /\ iter.since = "seek" /\ iter.it.options.reverse
    /\ iter.sought = <<1, 2>> /\ iter.sought \notin iter.keydir
    /\ iter.keydir = {<<>>, <<1>>, <<2>>}
    /\ iter.yielded = <<<<1>>>>

\* C19 as stated: put returns whether the key was mapped before the call,
\* false for a key that was not mapped and true for an overwrite.
C19_PutReturnsReplaced ==
    [][icall'.op = "put" => icall'.ok = icall'.mapped]_vars

\* C19 amended: put maps the key to the position, whether the key was mapped
\* before or not, and returns true in both cases.
C19_PutReturnsTrue ==
    [][icall'.op = "put"
         => (icall'.ok /\ BTreeGet(index', icall'.key) = icall'.pos)]_vars

\* A put of a key that was not mapped returned true.
C19_Witness ==
    /\ icall.op = "put" /\ ~icall.mapped /\ icall.ok
    /\ BTreeGet(index, icall.key) = icall.pos

\* The position the map m gives to the key k, if any.
Mapping(m, k) == IF k \in DOMAIN m THEN Some(m[k]) ELSE None

\* C20: get returns the position of the latest put of the key that no delete
\* of the key followed, and none otherwise; delete returns true exactly when
\* the key was mapped and leaves it unmapped; no call changes the mapping of
\* another key.
C20_PlainMap ==
    [][/\ icall'.op = "get" => icall'.found = Mapping(latest, icall'.key)
       /\ icall'.op = "delete"
            => (icall'.ok = icall'.mapped /\ BTreeGet(index', icall'.key) = None)
       /\ \A k \in IndexKeys :
            /\ BTreeGet(index', k) = Mapping(latest', k)
            /\ k # icall'.key => BTreeGet(index', k) = BTreeGet(index, k)]_vars

\* A delete of the empty key found it mapped, returned true and left the
\* other keys of the map; and a delete of a key not mapped returned false.
C20_Witness ==
    /\ icall.op = "delete" /\ icall.key = <<>> /\ icall.mapped /\ icall.ok
    /\ <<>> \notin DOMAIN index /\ DOMAIN index # {}

----------------------------------------------------------------------------
(* More properties of the engine shared by threads.                        *)

\* The records of key in the log, as <<file id, place in the file, record>>.
RecordsOf(key) == {s \in Stored : s[3].key = key}

\* The most recent record of key is a NORMAL record.
LatestIsNormal(key) ==
    \E s \in RecordsOf(key) :
        /\ s[3].rec_type = NORMAL
        /\ \A x \in RecordsOf(key) : x[1] < s[1] \/ (x[1] = s[1] /\ x[2] <= s[2])

\* C15: when every call has returned, a key is in the index exactly when its
\* most recent record in the log is a NORMAL record.
C15_IndexFollowsLog ==
    (\A t \in Threads : pc[t] = "idle")
        => \A k \in NonEmptyKeys : (k \in DOMAIN index) <=> LatestIsNormal(k)

\* C17: a get never finds the file of its record missing from both the
\* active file and older_files, and the two changes of a rotation, the old id
\* inserted into older_files and the new active file installed, are made by a
\* thread that holds the write lock of the active file before and after each.
C17_RotationAtomic ==
    [][/\ \A t \in Threads :
             ret'[t].op = "get" => ret'[t].res.err # "DataFileNotFound"
       /\ (older' # older \/ active'.file_id # active.file_id)
             => \E t \in Threads :
                   /\ pc[t] \in {"rotate_insert", "rotate_install"}
                   /\ locks["active_file"].writer = t
                   /\ locks'["active_file"].writer = t]_vars

\* A get holds the position of a record of the active file and waits for the
\* lock while a put of the other thread is between the two changes of its
\* rotation.
C17_Witness ==
    \E t, u \in Threads :
        /\ pc[t] = "get_read" /\ locks["active_file"].readers = {}
        /\ loc[t].pos[1].file_id = active.file_id
        /\ pc[u] = "rotate_install" /\ locks["active_file"].writer = u
        /\ active.file_id \in DOMAIN older

----------------------------------------------------------------------------
(* Properties of the record header.                                        *)

\* The number of bytes of the encoding of x in groups of 7 bits.
RECURSIVE LenDelimOf(_)
LenDelimOf(x) ==
    IF BitLen(x) <= 7 THEN 1 ELSE 1 + LenDelimOf(SubSeq(x, 8, Len(x)))

\* C21: max_log_record_header_size() is 1 + 2 * len_delim(u32::MAX), and so
\* no header of a record with sizes up to u32::MAX is longer.
C21_MaxHeaderSize ==
    header.max # 0
        => /\ header.max = 1 + 2 * LenDelimOf(U32Max)
           /\ header.len # 0 => header.len <= header.max

----------------------------------------------------------------------------
(* Properties of the replay of a directory the engine wrote.               *)

\* C22: open succeeds on a directory that only puts and deletes of the engine
\* wrote, with no I/O failure and no torn record: the replay meets every
\* DELETED record while its key is in the index.
C22_ReplaySucceeds ==
    last.op = "open" => (status = "open" /\ last.res.ok)

----------------------------------------------------------------------------
(* Properties of the order of the locks.                                   *)

\* Thread t waits to take the lock name for writing.
WaitsToWrite(t, name) ==
    \/ name = "active_file" /\ pc[t] = "lock_active"
    \/ name = "older_files" /\ pc[t] = "append" /\ Rotates(ThreadRecord(t))

\* The call of thread t can take its next step, also when a reader is made
\* to wait for the writers that wait for the lock it asks for.
Proceeds(t) ==
    /\ ENABLED StepOrder(t)
    /\ (pc[t] = "get_read" /\ NextGetLock(t) # <<>>)
          => \A u \in Threads : ~WaitsToWrite(u, NextGetLock(t)[1])

\* No deadlock, and the order of the locks.
NoDeadlock ==
    /\ (\E t \in Threads : pc[t] # "idle")
          => \E t \in Threads : pc[t] # "idle" /\ Proceeds(t)
    /\ \A t \in Threads : Holds(t, "older_files") => Holds(t, "active_file")

\* C23: when calls are in progress, one of them can take a step: never is
\* every call in progress waiting for a lock; a thread that holds the lock
\* of older_files holds the lock of the active file, taken before it; and
\* every call in progress returns.
C23_NoDeadlock ==
    /\ []NoDeadlock
    /\ \A t \in Threads : (pc[t] # "idle") ~> (pc[t] = "idle")

\* A get waits for the lock of the active file, which a delete holds in the
\* middle of its rotation.
C23_Witness ==
    \E t, u \in Threads :
        /\ pc[t] = "get_read" /\ ~Holds(t, "active_file") /\ ~Proceeds(t)
        /\ pc[u] = "rotate_install" /\ loc[u].op = "delete"
        /\ locks["active_file"].writer = u /\ locks["older_files"].writer = u

====
